---- MODULE Spec2Model ----
(***************************************************************************)
(* A model of three files of avocado:                                      *)
(*   avocado/plugins/runner.py  TestRunner.run, the job identifier check   *)
(*   avocado/utils/process.py   find_command and run                       *)
(*   avocado/plugins/gdb.py     GDB.configure and GDB.activate             *)
(* Each part has its own specification (SpecRunner, SpecFind, SpecGdb,     *)
(* SpecProc and, with fairness, FairSpecProc); the variables of the other  *)
(* parts keep their initial value.                                         *)
(***************************************************************************)
EXTENDS Integers, Sequences, FiniteSets, TLC

VARIABLES
    \* runner.py, TestRunner.run
    r_pc,             \* "idle" before the call, "done" after it returned
    unique_job_id,    \* args.unique_job_id: None or a string (sequence of characters)
    url,              \* args.url: the list of test identifiers
    rc,               \* what TestRunner.run returned (read when r_pc = "done")
    jobs_created,     \* number of job.Job instances constructed
    tests_run,        \* number of tests the created jobs executed
    help_printed,     \* whether self.parser.print_help() was called
    \* process.py, find_command
    environ,          \* os.environ: whether PATH is set, and its value
    fs,               \* the regular files of the file system
    f_pc,             \* "idle" before the call of find_command, "done" after it
    f_cmd,            \* the argument cmd
    f_out,            \* how the call ended: a returned path or an exception
    \* gdb.py, GDB.configure and GDB.activate, and avocado.runtime
    g_pc,             \* "new" before GDB.configure, "configured" after it
                      \* returned, "failed" after an exception left it
    parser_args,      \* the arguments GDB.configure added to the run parser
    gdb_path_default, \* the default of --gdb-path (system_gdb_path)
    app_args,         \* the argument of the last call of GDB.activate
    activations,      \* number of calls of GDB.activate so far
    GDB_RUN_BINARY_NAMES_EXPR,   \* runtime.GDB_RUN_BINARY_NAMES_EXPR
    GDB_ENABLE_CORE,             \* runtime.GDB_ENABLE_CORE
    GDB_PATH,                    \* runtime.GDB_PATH
    \* process.py, run, and the child it spawns
    p_pc,             \* where run is: "idle", "communicate", "result",
                      \* "exit_status", "fields", "done"
    p_cmd,            \* the command: whether it can be spawned, what the
                      \* child writes, and its exit status
    ignore_status,    \* the argument ignore_status
    c_pc,             \* the child: 0 when there is none, else the index of
                      \* its next write; past the last one it exits
    returncode,       \* p.returncode: None until the child was waited for
    exited,           \* the child has terminated (its pipe ends are closed)
    pipe,             \* the data in flight in the stdout and stderr pipes
    captured,         \* what communicate has read from each pipe so far
    eof,              \* the pipes communicate has read to end-of-stream
    result,           \* the CmdResult, once constructed
    status_sets,      \* number of assignments of an exit status to result
    p_out             \* how run ended, and the CmdResult handed to the caller

runner_vars == <<r_pc, unique_job_id, url, rc, jobs_created, tests_run, help_printed>>

find_vars == <<environ, fs, f_pc, f_cmd, f_out>>

gdb_vars == <<g_pc, parser_args, gdb_path_default, app_args, activations,
              GDB_RUN_BINARY_NAMES_EXPR, GDB_ENABLE_CORE, GDB_PATH>>

proc_vars == <<p_pc, p_cmd, ignore_status, c_pc, returncode, exited, pipe, captured,
               eof, result, status_sets, p_out>>

vars == <<runner_vars, find_vars, gdb_vars, proc_vars>>

\* Python's None, where a string is expected: no sequence of characters
None == <<"None">>

(***************************************************************************)
(* Each part before its operation is called.                               *)
(***************************************************************************)
RunnerIdle ==
    /\ r_pc = "idle"
    /\ rc = 0
    /\ jobs_created = 0
    /\ tests_run = 0
    /\ help_printed = FALSE

FindIdle ==
    /\ f_pc = "idle"
    /\ f_cmd = <<>>
    /\ f_out = [kind |-> "", value |-> <<>>, paths |-> <<>>]

\* no arguments yet: the Namespace of a subcommand without the gdb options
NoArgs == [attrs |-> {}, gdb_run_bin |-> <<>>, gdb_enable_core |-> FALSE,
           gdb_path |-> <<>>]

\* avocado.runtime as imported, and the plugin before GDB.configure
GdbIdle ==
    /\ g_pc = "new"
    /\ parser_args = {}
    /\ gdb_path_default = <<>>
    /\ app_args = NoArgs
    /\ activations = 0
    /\ GDB_RUN_BINARY_NAMES_EXPR = <<>>
    /\ GDB_ENABLE_CORE = FALSE
    /\ GDB_PATH = None

\* an exit status is None or an integer: the empty or a one-element sequence
NoStatus == <<>>
Status(n) == <<n>>

\* no CmdResult
NoResult == [exit_status |-> NoStatus, stdout |-> <<>>, stderr |-> <<>>,
             duration |-> "0", built |-> FALSE]

\* before run is called
ProcIdle ==
    /\ p_pc = "idle"
    /\ c_pc = 0
    /\ returncode = NoStatus
    /\ exited = FALSE
    /\ pipe = [s \in {"stdout", "stderr"} |-> <<>>]
    /\ captured = [s \in {"stdout", "stderr"} |-> <<>>]
    /\ eof = [s \in {"stdout", "stderr"} |-> FALSE]
    /\ result = NoResult
    /\ status_sets = 0
    /\ p_out = [kind |-> "", result |-> NoResult]

NoCmd == [spawn |-> "ok", writes |-> <<>>, status |-> 0]

(***************************************************************************)
(* Strings are sequences of one-character strings.                         *)
(***************************************************************************)
HexDigits == {"0", "1", "2", "3", "4", "5", "6", "7", "8", "9",
              "a", "b", "c", "d", "e", "f", "A", "B", "C", "D", "E", "F"}

Whitespace == {" ", "\t", "\n"}

RECURSIVE lstrip(_)
lstrip(s) == IF s # <<>> /\ Head(s) \in Whitespace THEN lstrip(Tail(s)) ELSE s

RECURSIVE rstrip(_)
rstrip(s) ==
    IF s # <<>> /\ s[Len(s)] \in Whitespace THEN rstrip(SubSeq(s, 1, Len(s) - 1)) ELSE s

\* the literal without an optional leading sign
unsigned(s) == IF s # <<>> /\ Head(s) \in {"+", "-"} THEN Tail(s) ELSE s

\* the literal without an optional base-16 prefix
unprefixed(s) ==
    IF Len(s) >= 2 /\ s[1] = "0" /\ s[2] \in {"x", "X"} THEN SubSeq(s, 3, Len(s)) ELSE s

\* int(s, 16) returns instead of raising ValueError: the literal may be
\* surrounded by whitespace, carry a sign and a 0x prefix, and must then be
\* a non-empty run of hexadecimal digits.
int16_ok(s) ==
    LET digits == unprefixed(unsigned(rstrip(lstrip(s))))
    IN  /\ digits # <<>>
        /\ \A i \in 1..Len(digits) : digits[i] \in HexDigits

\* the length the identifier must have
JobIdLen == 40

\* the try block of TestRunner.run: TRUE when it ends without an exception
job_id_accepted(id) == int16_ok(id) /\ ~(Len(id) # JobIdLen)

(***************************************************************************)
(* The identifiers tried: a prefix, a run of one hexadecimal digit, and a  *)
(* suffix, so that strings of length JobIdLen with a sign, a prefix or     *)
(* whitespace are among them, as are well-formed ones.                     *)
(***************************************************************************)
MaxPrefix == 2
MaxSuffix == 1
RunSlack == 4

Affix == {"0", "x", "+", " ", "g"}

SeqsUpTo(S, n) == UNION {[1..k -> S] : k \in 0..n}

Run(c, k) == [i \in 1..k |-> c]

JobIds ==
    {p \o Run(c, k) \o q :
        p \in SeqsUpTo(Affix, MaxPrefix), q \in SeqsUpTo(Affix, MaxSuffix),
        c \in {"a"}, k \in (JobIdLen - RunSlack)..JobIdLen}

(***************************************************************************)
(* Paths.  A path is a sequence of tokens: the separator "/" or a name.    *)
(* The value of PATH is a sequence of tokens too, with ":" between its     *)
(* entries.  No token is "." or "..", and there are no symbolic links.     *)
(***************************************************************************)
Range(s) == {s[i] : i \in 1..Len(s)}

\* str.split(sep): the pieces between the separators, empty ones included
RECURSIVE split(_, _)
split(s, sep) ==
    IF sep \notin Range(s) THEN <<s>>
    ELSE LET i == CHOOSE k \in 1..Len(s) : s[k] = sep /\ \A j \in 1..(k - 1) : s[j] # sep
         IN  <<SubSeq(s, 1, i - 1)>> \o split(SubSeq(s, i + 1, Len(s)), sep)

\* avocado.utils.misc.unique: the elements of lst without duplicates, in
\* first-seen order
RECURSIVE unique(_)
unique(lst) ==
    IF lst = <<>> THEN <<>>
    ELSE LET r == unique(SubSeq(lst, 1, Len(lst) - 1))
             x == lst[Len(lst)]
         IN  IF x \in Range(r) THEN r ELSE Append(r, x)

isabs(p) == p # <<>> /\ p[1] = "/"

\* os.path.join(a, b)
join(a, b) ==
    IF isabs(b) THEN b
    ELSE IF a = <<>> \/ a[Len(a)] = "/" THEN a \o b
    ELSE a \o <<"/">> \o b

\* the names of a path, in order, without the separators
RECURSIVE names(_)
names(p) ==
    IF p = <<>> THEN <<>>
    ELSE IF Head(p) = "/" THEN names(Tail(p))
    ELSE <<Head(p)>> \o names(Tail(p))

\* os.getcwd()
cwd == <<"/", "home">>

\* the file a path names: its names from the root
resolve(p) == IF isabs(p) THEN names(p) ELSE names(cwd) \o names(p)

\* os.path.isfile(p): p names an existing regular file
isfile(p, files) == p # <<>> /\ resolve(p) \in files

\* "/".join(comps)
RECURSIVE slash_join(_)
slash_join(comps) ==
    IF comps = <<>> THEN <<>>
    ELSE IF Len(comps) = 1 THEN comps
    ELSE <<Head(comps), "/">> \o slash_join(Tail(comps))

\* os.path.normpath(p) of posixpath: one leading slash, or two when the
\* path starts with exactly two; no empty component; "." for the empty path
normpath(p) ==
    LET initial_slashes ==
            IF ~isabs(p) THEN 0
            ELSE IF Len(p) >= 2 /\ p[2] = "/" /\ ~(Len(p) >= 3 /\ p[3] = "/") THEN 2
            ELSE 1
        path == Run("/", initial_slashes) \o slash_join(names(p))
    IN  IF path = <<>> THEN <<".">> ELSE path

\* os.path.abspath(p)
abspath(p) == normpath(IF isabs(p) THEN p ELSE join(cwd, p))

common_bin_paths ==
    << <<"/", "usr", "/", "libexec">>, <<"/", "usr", "/", "local", "/", "sbin">>,
       <<"/", "usr", "/", "local", "/", "bin">>, <<"/", "usr", "/", "sbin">>,
       <<"/", "usr", "/", "bin">>, <<"/", "sbin">>, <<"/", "bin">> >>

\* os.environ['PATH']: the value, or the KeyError of a missing key
environ_PATH(env) ==
    IF env.has_PATH THEN [raised |-> "", value |-> env.PATH]
    ELSE [raised |-> "KeyError", value |-> <<>>]

\* the exception the handler of find_command catches (except IndexError)
find_command_except == "IndexError"

\* the index in dirs of the first directory where cmd is a regular file, or 0
first_isfile(dirs, cmd, files) ==
    IF \E i \in 1..Len(dirs) : isfile(join(dirs[i], cmd), files)
    THEN CHOOSE i \in 1..Len(dirs) :
             /\ isfile(join(dirs[i], cmd), files)
             /\ \A j \in 1..(i - 1) : ~isfile(join(dirs[j], cmd), files)
    ELSE 0

\* find_command searching the directories of PATH before the standard ones
find_command_PATH_first(cmd, env, files) ==
    LET got == environ_PATH(env)
    IN  IF got.raised # "" /\ got.raised # find_command_except
        THEN [kind |-> got.raised, value |-> <<>>, paths |-> <<>>]
        ELSE LET path_paths ==
                     unique((IF got.raised = "" THEN split(got.value, ":") ELSE <<>>)
                            \o common_bin_paths)
                 i == first_isfile(path_paths, cmd, files)
             IN  IF i # 0
                 THEN [kind |-> "return",
                       value |-> abspath(join(path_paths[i], cmd)),
                       paths |-> <<>>]
                 ELSE [kind |-> "CmdNotFoundError", value |-> <<>>,
                       paths |-> path_paths]

\* find_command(cmd) in the environment env and the file system files: how
\* it ends, with the path returned or the exception raised and its paths
find_command(cmd, env, files) ==
    LET got == environ_PATH(env)
    IN  IF got.raised # "" /\ got.raised # find_command_except
        THEN [kind |-> got.raised, value |-> <<>>, paths |-> <<>>]
        ELSE LET path_paths ==
                     unique(common_bin_paths \o
                            (IF got.raised = "" THEN split(got.value, ":") ELSE <<>>))
                 i == first_isfile(path_paths, cmd, files)
             IN  IF i # 0
                 THEN [kind |-> "return",
                       value |-> abspath(join(path_paths[i], cmd)),
                       paths |-> <<>>]
                 ELSE [kind |-> "CmdNotFoundError", value |-> <<>>,
                       paths |-> path_paths]

(***************************************************************************)
(* The environments and file systems tried.                                *)
(***************************************************************************)
MaxPathLen == 4
MaxFiles == 2

PathTokens == {":", "/", "bin", "opt"}

Environs ==
    {[has_PATH |-> TRUE, PATH |-> v] : v \in SeqsUpTo(PathTokens, MaxPathLen)}
        \cup {[has_PATH |-> FALSE, PATH |-> <<>>]}

Cmds == {<<"gdb">>, <<"ls">>}

Files ==
    {<<"usr", "bin", "gdb">>, <<"bin", "gdb">>, <<"opt", "gdb">>, <<"home", "gdb">>,
     <<"home", "opt", "gdb">>, <<"home", "bin", "ls">>}

FileSystems == {f \in SUBSET Files : Cardinality(f) <= MaxFiles}

InitFind ==
    /\ FindIdle
    /\ environ \in Environs
    /\ fs \in FileSystems
    /\ RunnerIdle
    /\ url = <<>>
    /\ unique_job_id = None
    /\ GdbIdle
    /\ ProcIdle
    /\ p_cmd = NoCmd
    /\ ignore_status = FALSE

\* a call of find_command, to its end
call_find_command ==
    /\ f_pc = "idle"
    /\ \E cmd \in Cmds :
        /\ f_cmd' = cmd
        /\ f_out' = find_command(cmd, environ, fs)
    /\ f_pc' = "done"
    /\ UNCHANGED <<environ, fs>>
    /\ UNCHANGED <<runner_vars, gdb_vars, proc_vars>>

NextFind == call_find_command

SpecFind == InitFind /\ [][NextFind]_vars

(***************************************************************************)
(* process.py, run.  The child writes its output one unit at a time, each  *)
(* unit to stdout or to stderr, and then exits; a write blocks while the   *)
(* pipe it goes to is full.  A unit is named by its index in the child's   *)
(* writes, so what was captured can be compared with what was written.     *)
(***************************************************************************)
Streams == {"stdout", "stderr"}

\* units a pipe holds before a write to it blocks
PipeCap == 2
\* units a child writes at most
MaxWrites == 4

ExitStatuses == {-9, 0, 1, 2}

\* what Popen does with args[0]: the child starts, or execvp fails with
\* ENOENT or EACCES
Spawns == {"ok", "ENOENT", "EACCES"}

Commands ==
    {[spawn |-> sp, writes |-> w, status |-> st] :
        sp \in {"ok"}, w \in SeqsUpTo(Streams, MaxWrites), st \in ExitStatuses}
    \cup {[spawn |-> sp, writes |-> <<>>, status |-> 0] : sp \in Spawns \ {"ok"}}

\* the exception subprocess.Popen raises when the child cannot be started
Popen_error(spawn) == IF spawn = "ok" THEN "" ELSE "OSError"

\* lines 119-123: shlex.split and subprocess.Popen
Popen ==
    /\ p_pc = "idle"
    /\ IF Popen_error(p_cmd.spawn) = ""
       THEN /\ c_pc' = 1
            /\ p_pc' = "communicate"
            /\ p_out' = p_out
       ELSE /\ c_pc' = c_pc
            /\ p_pc' = "done"
            /\ p_out' = [kind |-> Popen_error(p_cmd.spawn), result |-> NoResult]
    /\ UNCHANGED <<p_cmd, ignore_status, returncode, exited, pipe, captured, eof,
                   result, status_sets>>
    /\ UNCHANGED <<runner_vars, find_vars, gdb_vars>>

\* the child writes its next unit, when the pipe has room for it
child_write ==
    /\ c_pc >= 1 /\ c_pc <= Len(p_cmd.writes) /\ ~exited
    /\ LET s == p_cmd.writes[c_pc]
       IN  /\ Len(pipe[s]) < PipeCap
           /\ pipe' = [pipe EXCEPT ![s] = Append(@, c_pc)]
    /\ c_pc' = c_pc + 1
    /\ UNCHANGED <<p_pc, p_cmd, ignore_status, returncode, exited, captured, eof,
                   result, status_sets, p_out>>
    /\ UNCHANGED <<runner_vars, find_vars, gdb_vars>>

\* the child terminates after its last write; that closes its pipe ends
child_exit ==
    /\ c_pc >= 1 /\ c_pc = Len(p_cmd.writes) + 1 /\ ~exited
    /\ exited' = TRUE
    /\ UNCHANGED <<p_pc, p_cmd, ignore_status, c_pc, returncode, pipe, captured, eof,
                   result, status_sets, p_out>>
    /\ UNCHANGED <<runner_vars, find_vars, gdb_vars>>

\* communicate reading a pipe only once the child has terminated
readable_after_exit(s) == ~eof[s] /\ pipe[s] # <<>> /\ exited

\* communicate may read from pipe s: it is still open and holds data
readable(s) == ~eof[s] /\ pipe[s] # <<>>

\* line 124, p.communicate(): some of the data of a readable pipe is read
communicate_read ==
    /\ p_pc = "communicate"
    /\ \E s \in Streams :
        /\ readable(s)
        /\ \E k \in 1..Len(pipe[s]) :
            /\ captured' = [captured EXCEPT ![s] = @ \o SubSeq(pipe[s], 1, k)]
            /\ pipe' = [pipe EXCEPT ![s] = SubSeq(@, k + 1, Len(@))]
    /\ UNCHANGED <<p_pc, p_cmd, ignore_status, c_pc, returncode, exited, eof, result,
                   status_sets, p_out>>
    /\ UNCHANGED <<runner_vars, find_vars, gdb_vars>>

\* line 124, p.communicate(): a read of an empty pipe whose write end is
\* closed returns end-of-stream, and the pipe is closed
communicate_eof ==
    /\ p_pc = "communicate"
    /\ \E s \in Streams :
        /\ ~eof[s] /\ pipe[s] = <<>> /\ exited
        /\ eof' = [eof EXCEPT ![s] = TRUE]
    /\ UNCHANGED <<p_pc, p_cmd, ignore_status, c_pc, returncode, exited, pipe,
                   captured, result, status_sets, p_out>>
    /\ UNCHANGED <<runner_vars, find_vars, gdb_vars>>

\* communicate reading stdout to its end and leaving stderr
drained_stdout_only == eof["stdout"]

\* communicate stops reading and waits for the child
drained == eof["stdout"] /\ eof["stderr"]

\* line 124, p.communicate(): after the reads, self.wait() sets returncode
\* and communicate returns (stdout, stderr)
communicate_wait ==
    /\ p_pc = "communicate"
    /\ drained
    /\ exited
    /\ returncode' = Status(p_cmd.status)
    /\ p_pc' = "result"
    /\ UNCHANGED <<p_cmd, ignore_status, c_pc, exited, pipe, captured, eof, result,
                   status_sets, p_out>>
    /\ UNCHANGED <<runner_vars, find_vars, gdb_vars>>

\* CmdResult.__init__(command): the defaults of the other fields
CmdResult == [exit_status |-> NoStatus, stdout |-> <<>>, stderr |-> <<>>,
              duration |-> "0", built |-> TRUE]

\* lines 125-126: result = CmdResult(cmd)
new_result ==
    /\ p_pc = "result"
    /\ result' = CmdResult
    /\ p_pc' = "exit_status"
    /\ UNCHANGED <<p_cmd, ignore_status, c_pc, returncode, exited, pipe, captured, eof,
                   status_sets, p_out>>
    /\ UNCHANGED <<runner_vars, find_vars, gdb_vars>>

\* line 127: result.exit_status = p.returncode
set_exit_status ==
    /\ p_pc = "exit_status"
    /\ result' = [result EXCEPT !.exit_status = returncode]
    /\ status_sets' = status_sets + 1
    /\ p_pc' = "fields"
    /\ UNCHANGED <<p_cmd, ignore_status, c_pc, returncode, exited, pipe, captured, eof,
                   p_out>>
    /\ UNCHANGED <<runner_vars, find_vars, gdb_vars>>

\* line 131 without its test of ignore_status
raises_CmdError_always(code, ignore) == code # Status(0)

\* the condition of line 131
raises_CmdError(code, ignore) == code # Status(0) /\ ~ignore

\* lines 128-133: the other fields are set, and the result is returned or
\* raised inside a CmdError
finish ==
    /\ p_pc = "fields"
    /\ LET r == [result EXCEPT !.stdout = captured["stdout"],
                               !.stderr = captured["stderr"],
                               !.duration = "elapsed"]
       IN  /\ result' = r
           /\ p_out' = [kind |-> IF raises_CmdError(returncode, ignore_status)
                                 THEN "CmdError" ELSE "return",
                        result |-> r]
    /\ p_pc' = "done"
    /\ UNCHANGED <<p_cmd, ignore_status, c_pc, returncode, exited, pipe, captured, eof,
                   status_sets>>
    /\ UNCHANGED <<runner_vars, find_vars, gdb_vars>>

child == child_write \/ child_exit

parent ==
    \/ Popen
    \/ communicate_read
    \/ communicate_eof
    \/ communicate_wait
    \/ new_result
    \/ set_exit_status
    \/ finish

InitProc ==
    /\ ProcIdle
    /\ p_cmd \in Commands
    /\ ignore_status \in BOOLEAN
    /\ RunnerIdle
    /\ url = <<>>
    /\ unique_job_id = None
    /\ FindIdle
    /\ environ = [has_PATH |-> TRUE, PATH |-> <<>>]
    /\ fs = {}
    /\ GdbIdle

NextProc == child \/ parent

SpecProc == InitProc /\ [][NextProc]_vars

\* the child runs while it can, and so does the interpreter running run
FairSpecProc == SpecProc /\ WF_vars(child) /\ WF_vars(parent)

(***************************************************************************)
(* gdb.py                                                                  *)
(***************************************************************************)
default_gdb_path == <<"/", "usr", "/", "bin", "/", "gdb">>

\* the try block of GDB.configure around find_command('gdb'): the found
\* path, the default when CmdNotFoundError was raised, or the exception
\* that leaves GDB.configure
system_gdb_path(env, files) ==
    LET out == find_command(<<"gdb">>, env, files)
    IN  IF out.kind = "return" THEN [raised |-> "", value |-> out.value]
        ELSE IF out.kind = "CmdNotFoundError"
             THEN [raised |-> "", value |-> default_gdb_path]
        ELSE [raised |-> out.kind, value |-> <<>>]

\* GDB.configure
configure ==
    /\ g_pc = "new"
    /\ LET got == system_gdb_path(environ, fs)
       IN  IF got.raised = ""
           THEN /\ parser_args' = {"gdb_run_bin", "gdb_enable_core", "gdb_path"}
                /\ gdb_path_default' = got.value
                /\ g_pc' = "configured"
           ELSE /\ parser_args' = {"gdb_run_bin", "gdb_enable_core"}
                /\ gdb_path_default' = gdb_path_default
                /\ g_pc' = "failed"
    /\ UNCHANGED <<app_args, activations, GDB_RUN_BINARY_NAMES_EXPR, GDB_ENABLE_CORE,
                   GDB_PATH>>
    /\ UNCHANGED <<runner_vars, find_vars, proc_vars>>

\* the loop of GDB.activate keeping one rule per entry
append_each_once(exprs, bins) == unique(exprs \o bins)

\* the loop of GDB.activate: each entry is appended, in order
RECURSIVE append_each(_, _)
append_each(exprs, bins) ==
    IF bins = <<>> THEN exprs
    ELSE append_each(Append(exprs, Head(bins)), Tail(bins))

\* lines 64-65 as a plain assignment of the option
enable_core_assigned(core, gdb_enable_core) == gdb_enable_core

\* runtime.GDB_ENABLE_CORE after lines 64-65
enable_core(core, gdb_enable_core) == IF gdb_enable_core THEN TRUE ELSE core

\* GDB.activate(args): the statements run up to the first missing
\* attribute, whose AttributeError is swallowed
activate(args) ==
    /\ app_args' = args
    /\ activations' = activations + 1
    /\ IF "gdb_run_bin" \notin args.attrs
       THEN UNCHANGED <<GDB_RUN_BINARY_NAMES_EXPR, GDB_ENABLE_CORE, GDB_PATH>>
       ELSE /\ GDB_RUN_BINARY_NAMES_EXPR' =
                   append_each(GDB_RUN_BINARY_NAMES_EXPR, args.gdb_run_bin)
            /\ IF "gdb_enable_core" \notin args.attrs
               THEN UNCHANGED <<GDB_ENABLE_CORE, GDB_PATH>>
               ELSE /\ GDB_ENABLE_CORE' = enable_core(GDB_ENABLE_CORE, args.gdb_enable_core)
                    /\ IF "gdb_path" \notin args.attrs
                       THEN UNCHANGED GDB_PATH
                       ELSE GDB_PATH' = args.gdb_path
    /\ UNCHANGED <<g_pc, parser_args, gdb_path_default>>
    /\ UNCHANGED <<runner_vars, find_vars, proc_vars>>

(***************************************************************************)
(* The command lines tried.                                                *)
(***************************************************************************)
MaxActivate == 2
MaxRunBin == 2

Binaries == {"foo", "bar"}

\* values of --gdb-path: a file that may exist, and a bare name
GdbPaths == {<<"/", "opt", "/", "gdb">>, <<"gdb">>}

\* the environments and file systems GDB.configure is tried in: PATH unset,
\* empty, or naming a relative directory; gdb in a standard directory, in
\* the directory of PATH, elsewhere, or nowhere
GdbEnvirons ==
    {[has_PATH |-> FALSE, PATH |-> <<>>], [has_PATH |-> TRUE, PATH |-> <<>>],
     [has_PATH |-> TRUE, PATH |-> <<"opt">>]}

GdbFileSystems ==
    {{}, {<<"usr", "bin", "gdb">>}, {<<"home", "opt", "gdb">>}, {<<"opt", "gdb">>}}

\* the Namespace argparse builds for the run subcommand from the arguments
\* GDB.configure added: each option given, or its default
RunArgs ==
    {[attrs |-> parser_args, gdb_run_bin |-> bins, gdb_enable_core |-> core,
      gdb_path |-> IF "gdb_path" \in parser_args THEN path ELSE <<>>] :
        bins \in SeqsUpTo(Binaries, MaxRunBin), core \in BOOLEAN,
        path \in GdbPaths \cup {gdb_path_default}}

\* the plugin manager calls activate with the parsed arguments
call_activate ==
    /\ g_pc # "new"
    /\ activations < MaxActivate
    /\ \E args \in RunArgs \cup {NoArgs} : activate(args)

InitGdb ==
    /\ GdbIdle
    /\ ProcIdle
    /\ p_cmd = NoCmd
    /\ ignore_status = FALSE
    /\ FindIdle
    /\ environ \in GdbEnvirons
    /\ fs \in GdbFileSystems
    /\ RunnerIdle
    /\ url = <<>>
    /\ unique_job_id = None
    /\ ProcIdle
    /\ p_cmd = NoCmd
    /\ ignore_status = FALSE

NextGdb == configure \/ call_activate

SpecGdb == InitGdb /\ [][NextGdb]_vars

(***************************************************************************)
(* runner.py                                                               *)
(***************************************************************************)
\* exit codes of Job.run (avocado/job.py)
JobRcs == 0..2

Urls == {<<>>, <<"t1">>, <<"t1", "t2">>}

InitRunner ==
    /\ RunnerIdle
    /\ url \in Urls
    /\ unique_job_id \in {None} \cup JobIds
    /\ FindIdle
    /\ environ = [has_PATH |-> TRUE, PATH |-> <<>>]
    /\ fs = {}
    /\ GdbIdle
    /\ ProcIdle
    /\ p_cmd = NoCmd
    /\ ignore_status = FALSE

\* TestRunner.run: the validation failed, -1 is returned
run_reject ==
    /\ r_pc = "idle"
    /\ unique_job_id # None
    /\ ~job_id_accepted(unique_job_id)
    /\ rc' = -1
    /\ r_pc' = "done"
    /\ UNCHANGED <<unique_job_id, url, jobs_created, tests_run, help_printed>>
    /\ UNCHANGED <<find_vars, gdb_vars, proc_vars>>

\* TestRunner.run: a Job is created and run, its exit code is returned
run_job ==
    /\ r_pc = "idle"
    /\ unique_job_id = None \/ job_id_accepted(unique_job_id)
    /\ jobs_created' = jobs_created + 1
    /\ tests_run' = tests_run + Len(url)
    /\ \E code \in JobRcs : rc' = code
    /\ help_printed' = (url = <<>>)
    /\ r_pc' = "done"
    /\ UNCHANGED <<unique_job_id, url>>
    /\ UNCHANGED <<find_vars, gdb_vars, proc_vars>>

NextRunner == run_reject \/ run_job

SpecRunner == InitRunner /\ [][NextRunner]_vars

(***************************************************************************)
(* The claims.                                                             *)
(***************************************************************************)

\* ^[0-9a-fA-F]{40}$
JobIdPattern(id) == Len(id) = JobIdLen /\ \A i \in 1..Len(id) : id[i] \in HexDigits

\* C1: for every caller-supplied job identifier that does not match
\* ^[0-9a-fA-F]{40}$, TestRunner.run returns -1 and no Job is created or
\* run, so no test executes.
C1_BadJobIdRejected ==
    (r_pc = "done" /\ unique_job_id # None /\ ~JobIdPattern(unique_job_id))
        => (rc = -1 /\ jobs_created = 0 /\ tests_run = 0)

\* the units the command writes to stream s, in the order it writes them
Written(s) ==
    LET w == p_cmd.writes
    IN  SelectSeq([i \in 1..Len(w) |-> i], LAMBDA i : w[i] = s)

\* C2: when the child exits with a non-zero status, run with
\* ignore_status=False raises a CmdError carrying the result (the exit
\* status and everything the child wrote to stdout and to stderr) and run
\* with ignore_status=True returns a CmdResult with those values; for exit
\* status 0 a CmdResult is returned under either value of the flag.
C2_RunOutcome ==
    (p_pc = "done" /\ p_cmd.spawn = "ok") =>
        /\ p_out.result.built
        /\ p_out.result.exit_status = Status(p_cmd.status)
        /\ p_out.result.stdout = Written("stdout")
        /\ p_out.result.stderr = Written("stderr")
        /\ (p_cmd.status # 0 /\ ~ignore_status) => p_out.kind = "CmdError"
        /\ (p_cmd.status # 0 /\ ignore_status) => p_out.kind = "return"
        /\ p_cmd.status = 0 => p_out.kind = "return"

\* a failing child that wrote to both streams made run raise CmdError
C2_Witness ==
    /\ p_pc = "done"
    /\ p_out.kind = "CmdError"
    /\ p_out.result.exit_status = Status(1)
    /\ p_out.result.stdout # <<>>
    /\ p_out.result.stderr # <<>>

\* C3: when the executable of the command cannot be located or spawned,
\* run fails with a CmdNotFoundError, and with no other kind of error.
C3_SpawnFailureIsCmdNotFound ==
    (p_pc = "done" /\ p_cmd.spawn # "ok") => p_out.kind = "CmdNotFoundError"

\* the directories to search when PATH is set: the standard ones, then the
\* entries of PATH, each at the place of its first occurrence
SearchOrder ==
    LET all == common_bin_paths \o split(environ.PATH, ":")
        first == {i \in 1..Len(all) : \A j \in 1..(i - 1) : all[j] # all[i]}
    IN  [k \in 1..Cardinality(first) |->
            all[CHOOSE i \in first : Cardinality({j \in first : j < i}) = k - 1]]

\* the places in SearchOrder of the directories where f_cmd is a regular file
Hits == {k \in 1..Len(SearchOrder) : isfile(join(SearchOrder[k], f_cmd), fs)}

C5_GdbPathResolved ==
    (g_pc # "new" /\ activations >= 1 /\ GDB_PATH # None)
        => (isabs(GDB_PATH) /\ isfile(GDB_PATH, fs))

\* C6: GDB.activate only appends to the rule list: after a call the list is
\* its previous content followed by the entries of gdb_run_bin in the order
\* given (by nothing when the Namespace has no gdb_run_bin), and no other
\* step changes it.
C6_OnlyAppends ==
    [][GDB_RUN_BINARY_NAMES_EXPR' =
           GDB_RUN_BINARY_NAMES_EXPR \o
               (IF activations' # activations /\ "gdb_run_bin" \in app_args'.attrs
                THEN app_args'.gdb_run_bin ELSE <<>>)]_vars

\* foo and bar were registered, then foo again by a second call
C6_Witness ==
    /\ activations = 2
    /\ GDB_RUN_BINARY_NAMES_EXPR = <<"foo", "bar", "foo">>
    /\ app_args.gdb_run_bin = <<"foo">>

\* C7: once runtime.GDB_ENABLE_CORE is true, no later step sets it back to
\* false.
C7_CoreMonotonic == [][GDB_ENABLE_CORE => GDB_ENABLE_CORE']_vars

\* the flag is still set after a second call that did not ask for it
C7_Witness ==
    /\ activations = 2
    /\ GDB_ENABLE_CORE
    /\ "gdb_enable_core" \in app_args.attrs
    /\ ~app_args.gdb_enable_core

\* C8: the exit status of the result is set once, and only after the child
\* has terminated and both pipes were read to end-of-stream; a CmdResult is
\* handed to the caller only with its exit status set.
C8_ExitStatusOnce ==
    /\ status_sets <= 1
    /\ result.exit_status # NoStatus =>
           /\ status_sets = 1
           /\ exited
           /\ eof["stdout"] /\ eof["stderr"]
           /\ pipe["stdout"] = <<>> /\ pipe["stderr"] = <<>>
    /\ p_out.kind \in {"return", "CmdError"} =>
           /\ p_out.result.built
           /\ p_out.result.exit_status # NoStatus
           /\ status_sets = 1
           /\ eof["stdout"] /\ eof["stderr"]

\* a result was returned after output on both streams was read
C8_Witness ==
    /\ p_pc = "done"
    /\ p_out.kind = "return"
    /\ status_sets = 1
    /\ p_out.result.stdout # <<>>
    /\ p_out.result.stderr # <<>>

\* the child is blocked writing to a full pipe
ChildBlocked ==
    /\ c_pc >= 1 /\ c_pc <= Len(p_cmd.writes) /\ ~exited
    /\ Len(pipe[p_cmd.writes[c_pc]]) >= PipeCap

\* run is inside communicate and can take no step: it has nothing to read
\* and waits for the child
ParentBlocked == p_pc = "communicate" /\ ~ENABLED parent

\* C9: the child is never blocked writing to a full pipe while run is
\* blocked in communicate, and run always ends, whatever the amount of
\* output on either stream.
C9_NoPipeDeadlock == [](~(ChildBlocked /\ ParentBlocked)) /\ <>(p_pc = "done")

\* run returned a result with more output on one stream than a pipe holds
C9_Witness ==
    /\ p_pc = "done"
    /\ p_out.kind = "return"
    /\ Len(p_out.result.stderr) > PipeCap

\* C10: in every environment, also one without PATH, find_command returns
\* a path or raises CmdNotFoundError, and nothing else.
C10_FindCommandOutcomes == f_pc = "done" => f_out.kind \in {"return", "CmdNotFoundError"}

====
